---- MODULE Spec2Model ----
(***************************************************************************)
(* The backtest object of gemini/engine.py: its constructor and the        *)
(* bar-by-bar simulation loop of backtest.start, together with the         *)
(* Account / Position operations of gemini/exchange.py that the loop and   *)
(* the strategy callback call.                                             *)
(*                                                                         *)
(* Prices, cash and position sizes are whole numbers; a fraction is a pair  *)
(* <<numerator, denominator>> and a division rounds down.                  *)
(***************************************************************************)
EXTENDS Integers, Sequences, FiniteSets

VARIABLES
    pc,             \* where the program is: "new" before backtest(data), "rejected" or
                    \* "idle" after it, and in start(): "start", "loop", "exits",
                    \* "logic", "done", "aborted"
    is_frame,       \* whether the `data` given to backtest() is a pandas DataFrame
    columns,        \* set(data.columns)
    warned,         \* whether backtest() has emitted its warning
    data_len,       \* len(self.data)
    row,            \* 1-based position of the row the for loop is on (0 before the first)
    index,          \* `index` of the for loop: the label of the current row in self.data.index
    today,          \* `today` of the for loop: the current bar
    equity_now,     \* the local `equity` of the current bar
    cursor,         \* position of the iterator of `for p in self.account.positions`
    cash,           \* account cash
    positions,      \* account.positions
    next_no,        \* number of positions opened so far in the run
    opened_trades,  \* account.opened_trades
    closed_trades,  \* account.closed_trades
    equity,         \* account.equity
    date,           \* account.date
    tracker,        \* self.tracker
    lookback,       \* the rows (by position) handed to the callback on this bar
    ops,            \* operations the running callback has issued on this bar
    orders,         \* operations the callback has issued in the run
    calls,          \* calls[k]: how many times the callback was invoked for row k
    exits,          \* what the exit phase did on this bar, one record per position visited
    loop_closed,    \* numbers of the positions the exit checks of the run have closed
    error,          \* the exception that left start(), or "none"
    result          \* the frame start() returns, or <<>>

vars == <<pc, is_frame, columns, warned, loop_closed, data_len, row, index, today, equity_now, cursor, cash,
          positions, next_no, opened_trades, closed_trades, equity, date, tracker,
          lookback, ops, orders, calls, exits, error, result>>

(***************************************************************************)
(* Bounds and input domains                                                *)
(***************************************************************************)
MaxBars == 2          \* longest price series
MaxOrders == 2        \* operations the callback may issue on the account in a run

initial_capital == 10000

\* the columns a frame may have, and the ones backtest() looks for
Fields == {"date", "open", "high", "low", "close", "volume"}
required_columns == {"high", "low", "open", "close", "volume"}

\* labels the k-th row of the frame may carry in self.data.index: k - 1 as in a
\* default RangeIndex, or k as in a frame cut out of a longer one after a row
IndexLabels(k) == {k - 1, k}

Fractions == {<<1, 2>>, <<1, 1>>} \* the fractions an order may name: 1/2 and 1.0
Full == <<1, 1>>                  \* the fraction 1.0

NoPrice == -1                     \* an absent stop, target or exit price
NoBar == [open |-> NoPrice, high |-> NoPrice, low |-> NoPrice, close |-> NoPrice]

\* (open, high, low, close) of the bars a series is made of
Bars ==
    { [open |->  95, high |->  95, low |->  85, close |->  90],
      [open |->  85, high |-> 105, low |->  80, close |-> 100],
      [open |->  92, high |->  96, low |->  91, close |->  94],
      [open |->  96, high |->  97, low |->  91, close |->  93] }

StopOffsets == {10}   \* distances of a stop from the entry price
TargetOffsets == {5}  \* distances of a target from the entry price

(***************************************************************************)
(* Position                                                                *)
(***************************************************************************)
stop_hit(p, extreme_price) ==
    /\ p.stop_price # NoPrice
    /\ IF p.type = "long" THEN extreme_price <= p.stop_price
                          ELSE extreme_price >= p.stop_price

tp_hit(p, extreme_price) ==
    /\ p.take_profit_price # NoPrice
    /\ IF p.type = "long" THEN extreme_price >= p.take_profit_price
                          ELSE extreme_price <= p.take_profit_price

\* the stop recomputed from the reference price with the offset of the open
recomputed_stop(p, new_reference_price) ==
    IF p.type = "long" THEN new_reference_price - p.stop_offset
                       ELSE new_reference_price + p.stop_offset

stop_adjust_loosen(p, new_reference_price) ==
    IF p.trailing_stop /\ p.stop_price # NoPrice
    THEN [p EXCEPT !.stop_price = recomputed_stop(p, new_reference_price)]
    ELSE p

stop_adjust(p, new_reference_price) ==
    IF /\ p.trailing_stop
       /\ p.stop_price # NoPrice
       /\ IF p.type = "long"
          THEN recomputed_stop(p, new_reference_price) > p.stop_price
          ELSE recomputed_stop(p, new_reference_price) < p.stop_price
    THEN [p EXCEPT !.stop_price = recomputed_stop(p, new_reference_price)]
    ELSE p

\* value of one unit of p at price
unit_value(p, price) ==
    IF p.type = "long" THEN price ELSE 2 * p.entry_price - price

(***************************************************************************)
(* Account                                                                 *)
(***************************************************************************)
RECURSIVE marked(_, _)
marked(ps, price) ==
    IF ps = <<>> THEN 0
    ELSE Head(ps).size * unit_value(Head(ps), price) + marked(Tail(ps), price)

total_value(c, ps, price) == c + marked(ps, price)

purge_positions_keep(ps) == ps

purge_positions(ps) == SelectSeq(ps, LAMBDA p : p.size # 0)

\* units taken off p by closing the fraction f of its original size
closed_units(p, f) ==
    LET want == (f[1] * p.original_size) \div f[2]
    IN  IF want > p.size THEN p.size ELSE want

close_grow(p, f) == [p EXCEPT !.size = p.size + closed_units(p, f)]

close(p, f) == [p EXCEPT !.size = p.size - closed_units(p, f)]

proceeds(p, f, price) == closed_units(p, f) * unit_value(p, price)

\* units bought with the fraction f of c at price
units_for(c, f, price) == ((c * f[1]) \div f[2]) \div price

(***************************************************************************)
(* backtest.start: the exit checks of one position on one bar              *)
(***************************************************************************)
NoExit == [kind |-> "none", price |-> NoPrice]

exit_long_tp_first(p, t) ==
    IF tp_hit(p, t.high) THEN [kind |-> "tp", price |-> p.exit_price]
    ELSE IF stop_hit(p, t.low) THEN [kind |-> "stop", price |-> t.low]
    ELSE IF p.trailing_stop /\ t.close > t.open
         THEN [kind |-> "adjust", price |-> t.close]
    ELSE NoExit

exit_long_adjust_any_bar(p, t) ==
    IF stop_hit(p, t.low) THEN [kind |-> "stop", price |-> t.low]
    ELSE IF tp_hit(p, t.high) THEN [kind |-> "tp", price |-> p.exit_price]
    ELSE IF p.trailing_stop
         THEN [kind |-> "adjust", price |-> t.close]
    ELSE NoExit

exit_long(p, t) ==
    IF stop_hit(p, t.low) THEN [kind |-> "stop", price |-> t.low]
    ELSE IF tp_hit(p, t.high) THEN [kind |-> "tp", price |-> p.exit_price]
    ELSE IF p.trailing_stop /\ t.close > t.open
         THEN [kind |-> "adjust", price |-> t.close]
    ELSE NoExit

exit_short_tp_at_low(p, t) ==
    IF stop_hit(p, t.high) THEN [kind |-> "stop", price |-> t.high]
    ELSE IF tp_hit(p, t.low) THEN [kind |-> "tp", price |-> t.low]
    ELSE IF p.trailing_stop /\ t.close < t.open
         THEN [kind |-> "adjust", price |-> t.close]
    ELSE NoExit

exit_short_stop_on_low(p, t) ==
    IF stop_hit(p, t.low) THEN [kind |-> "stop", price |-> t.low]
    ELSE IF tp_hit(p, t.high) THEN [kind |-> "tp", price |-> p.exit_price]
    ELSE IF p.trailing_stop /\ t.close < t.open
         THEN [kind |-> "adjust", price |-> t.close]
    ELSE NoExit

exit_short(p, t) ==
    IF stop_hit(p, t.high) THEN [kind |-> "stop", price |-> t.high]
    ELSE IF tp_hit(p, t.low) THEN [kind |-> "tp", price |-> p.exit_price]
    ELSE IF p.trailing_stop /\ t.close < t.open
         THEN [kind |-> "adjust", price |-> t.close]
    ELSE NoExit

\* the columns of the row the exit checks of p read
exit_reads(p, t) ==
    IF p.type = "long"
    THEN {"low"} \cup (IF stop_hit(p, t.low) THEN {}
                       ELSE {"high"} \cup (IF tp_hit(p, t.high) \/ ~p.trailing_stop THEN {}
                                           ELSE {"close", "open"}))
    ELSE IF p.type = "short"
    THEN {"high"} \cup (IF stop_hit(p, t.high) THEN {}
                        ELSE {"low"} \cup (IF tp_hit(p, t.low) \/ ~p.trailing_stop THEN {}
                                           ELSE {"close", "open"}))
    ELSE {}

exit_check(p, t) ==
    IF p.type = "long" THEN exit_long(p, t)
    ELSE IF p.type = "short" THEN exit_short(p, t)
    ELSE NoExit

IsClose(d) == d.kind \in {"stop", "tp"}

\* the equity taken at the top of a bar
bar_equity_benchmark(t) == t.close

bar_equity(t) == total_value(cash, positions, t.close)

\* data[0:index+1]: the rows, by position, of a positional slice
slice_to(stop) == [k \in 1..(IF stop < data_len THEN stop ELSE data_len) |-> k]

Init ==
    /\ pc = "loop"
    /\ is_frame = TRUE
    /\ columns = Fields
    /\ warned = FALSE
    /\ loop_closed = {}
    /\ data_len \in 0..MaxBars
    /\ row = 0
    /\ index = -1
    /\ today = NoBar
    /\ equity_now = 0
    /\ cursor = 0
    /\ cash = initial_capital
    /\ positions = <<>>
    /\ next_no = 0
    /\ opened_trades = <<>>
    /\ closed_trades = <<>>
    /\ equity = <<>>
    /\ date = 0
    /\ tracker = <<>>
    /\ lookback = <<>>
    /\ ops = 0
    /\ orders = 0
    /\ calls = [k \in 1..data_len |-> 0]
    /\ exits = <<>>
    /\ error = "none"
    /\ result = <<>>

\* backtest(data)
Construct_no_warning ==
    /\ pc = "new"
    /\ IF ~is_frame
       THEN /\ error' = "ValueError"
            /\ pc' = "rejected"
            /\ UNCHANGED warned
       ELSE /\ warned' = FALSE
            /\ pc' = "idle"
            /\ UNCHANGED error
    /\ UNCHANGED <<is_frame, columns, loop_closed, data_len, row, index, today,
                   equity_now, cursor, cash, positions, next_no, opened_trades,
                   closed_trades, equity, date, tracker, lookback, ops, orders, calls,
                   exits, result>>

Construct ==
    /\ pc = "new"
    /\ IF ~is_frame
       THEN /\ error' = "ValueError"
            /\ pc' = "rejected"
            /\ UNCHANGED warned
       ELSE /\ warned' = (required_columns \ columns # {})
            /\ pc' = "idle"
            /\ UNCHANGED error
    /\ UNCHANGED <<is_frame, columns, loop_closed, data_len, row, index, today,
                   equity_now, cursor, cash, positions, next_no, opened_trades,
                   closed_trades, equity, date, tracker, lookback, ops, orders, calls,
                   exits, result>>

\* start() is called on the object, for the first time or after an earlier
\* run: the new tracker and the new account
Start_keep_tracker ==
    /\ pc \in {"idle", "done", "aborted"}
    /\ cash' = initial_capital
    /\ positions' = <<>>
    /\ next_no' = 0
    /\ opened_trades' = <<>>
    /\ closed_trades' = <<>>
    /\ equity' = <<>>
    /\ date' = 0
    /\ row' = 0
    /\ index' = -1
    /\ today' = NoBar
    /\ equity_now' = 0
    /\ cursor' = 0
    /\ lookback' = <<>>
    /\ ops' = 0
    /\ orders' = 0
    /\ calls' = [k \in 1..data_len |-> 0]
    /\ exits' = <<>>
    /\ loop_closed' = {}
    /\ error' = "none"
    /\ result' = <<>>
    /\ pc' = "start"
    /\ UNCHANGED <<is_frame, columns, warned, data_len, tracker>>

Start ==
    /\ pc \in {"idle", "done", "aborted"}
    /\ tracker' = <<>>
    /\ cash' = initial_capital
    /\ positions' = <<>>
    /\ next_no' = 0
    /\ opened_trades' = <<>>
    /\ closed_trades' = <<>>
    /\ equity' = <<>>
    /\ date' = 0
    /\ row' = 0
    /\ index' = -1
    /\ today' = NoBar
    /\ equity_now' = 0
    /\ cursor' = 0
    /\ lookback' = <<>>
    /\ ops' = 0
    /\ orders' = 0
    /\ calls' = [k \in 1..data_len |-> 0]
    /\ exits' = <<>>
    /\ loop_closed' = {}
    /\ error' = "none"
    /\ result' = <<>>
    /\ pc' = "start"
    /\ UNCHANGED <<is_frame, columns, warned, data_len>>

\* self.data.iterrows(): the for loop is entered
Enter ==
    /\ pc = "start"
    /\ pc' = "loop"
    /\ UNCHANGED <<is_frame, columns, warned, loop_closed, data_len, row, index, today,
                   equity_now, cursor, cash, positions, next_no, opened_trades,
                   closed_trades, equity, date, tracker, lookback, ops, orders, calls,
                   exits, error, result>>

\* for index, today in self.data.iterrows(): date, equity
BarStart ==
    /\ pc = "loop"
    /\ row < data_len
    /\ row' = row + 1
    /\ index' \in IndexLabels(row')
    /\ today' \in Bars
    /\ IF {"date", "close"} \subseteq columns
       THEN /\ equity_now' = bar_equity(today')
            /\ cursor' = 1
            /\ exits' = <<>>
            /\ pc' = "exits"
            /\ UNCHANGED error
       ELSE /\ error' = "KeyError"
            /\ pc' = "aborted"
            /\ UNCHANGED <<equity_now, cursor, exits>>
    /\ UNCHANGED <<is_frame, columns, warned, loop_closed, data_len, cash, positions,
                   next_no, opened_trades, closed_trades, equity, date, tracker,
                   lookback, ops, orders, calls, result>>

\* one pass of the body of `for p in self.account.positions`
ExitCheck_skip_after_close ==
    /\ pc = "exits"
    /\ cursor <= Len(positions)
    /\ LET p == positions[cursor]
           d == exit_check(p, today)
       IN  IF ~(exit_reads(p, today) \subseteq columns)
           THEN /\ error' = "KeyError"
                /\ pc' = "aborted"
                /\ UNCHANGED <<cursor, cash, positions, closed_trades, exits, loop_closed>>
           ELSE IF IsClose(d) /\ p.size = 0
           THEN /\ error' = "InvalidOrder"
                /\ pc' = "aborted"
                /\ UNCHANGED <<cursor, cash, positions, closed_trades, exits, loop_closed>>
           ELSE LET q == IF IsClose(d) THEN close(p, Full)
                         ELSE IF d.kind = "adjust" THEN stop_adjust(p, d.price)
                         ELSE p
                IN  /\ positions' = [positions EXCEPT ![cursor] = q]
                    /\ cash' = IF IsClose(d) THEN cash + proceeds(p, Full, d.price)
                               ELSE cash
                    /\ closed_trades' =
                           IF IsClose(d)
                           THEN Append(closed_trades,
                                       [no |-> p.no, type |-> p.type, date |-> date,
                                        price |-> d.price])
                           ELSE closed_trades
                    /\ loop_closed' = IF IsClose(d) THEN loop_closed \cup {p.no}
                                      ELSE loop_closed
                    /\ exits' = Append(exits, [before |-> p, kind |-> d.kind,
                                               price |-> d.price, after |-> q])
                    /\ cursor' = IF IsClose(d) THEN cursor + 2 ELSE cursor + 1
                    /\ UNCHANGED <<pc, error>>
    /\ UNCHANGED <<is_frame, columns, warned, data_len, row, index, today, equity_now,
                   next_no, opened_trades, equity, date, tracker, lookback, ops, orders,
                   calls, result>>

ExitCheck ==
    /\ pc = "exits"
    /\ cursor <= Len(positions)
    /\ LET p == positions[cursor]
           d == exit_check(p, today)
       IN  IF ~(exit_reads(p, today) \subseteq columns)
           THEN /\ error' = "KeyError"
                /\ pc' = "aborted"
                /\ UNCHANGED <<cursor, cash, positions, closed_trades, exits, loop_closed>>
           ELSE IF IsClose(d) /\ p.size = 0
           THEN /\ error' = "InvalidOrder"
                /\ pc' = "aborted"
                /\ UNCHANGED <<cursor, cash, positions, closed_trades, exits, loop_closed>>
           ELSE LET q == IF IsClose(d) THEN close(p, Full)
                         ELSE IF d.kind = "adjust" THEN stop_adjust(p, d.price)
                         ELSE p
                IN  /\ positions' = [positions EXCEPT ![cursor] = q]
                    /\ cash' = IF IsClose(d) THEN cash + proceeds(p, Full, d.price)
                               ELSE cash
                    /\ closed_trades' =
                           IF IsClose(d)
                           THEN Append(closed_trades,
                                       [no |-> p.no, type |-> p.type, date |-> date,
                                        price |-> d.price])
                           ELSE closed_trades
                    /\ loop_closed' = IF IsClose(d) THEN loop_closed \cup {p.no}
                                      ELSE loop_closed
                    /\ exits' = Append(exits, [before |-> p, kind |-> d.kind,
                                               price |-> d.price, after |-> q])
                    /\ cursor' = cursor + 1
                    /\ UNCHANGED <<pc, error>>
    /\ UNCHANGED <<is_frame, columns, warned, data_len, row, index, today, equity_now,
                   next_no, opened_trades, equity, date, tracker, lookback, ops, orders,
                   calls, result>>

\* the rest of the bar up to the call of logic(self.account, lookback)
EndExits_no_append ==
    /\ pc = "exits"
    /\ cursor > Len(positions)
    /\ positions' = purge_positions(positions)
    /\ date' = row
    /\ equity' = IF positions = <<>> THEN Append(equity, equity_now) ELSE equity
    /\ tracker' = Append(tracker, [date |-> row, benchmark_equity |-> today.close,
                                   strategy_equity |-> equity_now])
    /\ lookback' = slice_to(index + 1)
    /\ calls' = [calls EXCEPT ![row] = @ + 1]
    /\ ops' = 0
    /\ pc' = "logic"
    /\ UNCHANGED <<is_frame, columns, warned, loop_closed, data_len, row, index, today, equity_now, cursor, cash,
                   next_no, opened_trades, closed_trades, orders, exits,
                   error, result>>

EndExits_equity_after_exits ==
    /\ pc = "exits"
    /\ cursor > Len(positions)
    /\ positions' = purge_positions(positions)
    /\ date' = row
    /\ equity' = Append(equity, total_value(cash, positions', today.close))
    /\ tracker' = Append(tracker, [date |-> row, benchmark_equity |-> today.close,
                                   strategy_equity |->
                                       total_value(cash, positions', today.close)])
    /\ lookback' = slice_to(index + 1)
    /\ calls' = [calls EXCEPT ![row] = @ + 1]
    /\ ops' = 0
    /\ pc' = "logic"
    /\ UNCHANGED <<is_frame, columns, warned, loop_closed, data_len, row, index, today, equity_now, cursor, cash,
                   next_no, opened_trades, closed_trades, orders, exits,
                   error, result>>

EndExits_no_purge ==
    /\ pc = "exits"
    /\ cursor > Len(positions)
    /\ date' = row
    /\ equity' = Append(equity, equity_now)
    /\ tracker' = Append(tracker, [date |-> row, benchmark_equity |-> today.close,
                                   strategy_equity |-> equity_now])
    /\ lookback' = slice_to(index + 1)
    /\ calls' = [calls EXCEPT ![row] = @ + 1]
    /\ ops' = 0
    /\ pc' = "logic"
    /\ UNCHANGED <<is_frame, columns, warned, loop_closed, data_len, row, index, today, equity_now, cursor, cash, positions,
                   next_no, opened_trades, closed_trades, orders, exits,
                   error, result>>

EndExits ==
    /\ pc = "exits"
    /\ cursor > Len(positions)
    /\ positions' = purge_positions(positions)
    /\ date' = row
    /\ equity' = Append(equity, equity_now)
    /\ tracker' = Append(tracker, [date |-> row, benchmark_equity |-> today.close,
                                   strategy_equity |-> equity_now])
    /\ lookback' = slice_to(index + 1)
    /\ calls' = [calls EXCEPT ![row] = @ + 1]
    /\ ops' = 0
    /\ pc' = "logic"
    /\ UNCHANGED <<is_frame, columns, warned, loop_closed, data_len, row, index, today, equity_now, cursor, cash,
                   next_no, opened_trades, closed_trades, orders, exits,
                   error, result>>

(***************************************************************************)
(* The strategy callback: what logic(self.account, lookback) may do        *)
(***************************************************************************)
\* the orders a callback places: <<kind of stop, whether it sets a target>>
OrderKinds == {<<"fixed", TRUE>>, <<"trailing", TRUE>>, <<"none", FALSE>>}

\* the position open_position builds
new_position(no, type, units, price, stop_kind, stop_offset, target, target_offset) ==
    [no |-> no,
     type |-> type,
     entry_price |-> price,
     entry_date |-> date,
     original_size |-> units,
     size |-> units,
     stop_offset |-> stop_offset,
     stop_price |-> IF stop_kind = "none" THEN NoPrice
                    ELSE IF type = "long" THEN price - stop_offset
                    ELSE price + stop_offset,
     take_profit_price |-> IF ~target THEN NoPrice
                           ELSE IF type = "long" THEN price + target_offset
                           ELSE price - target_offset,
     trailing_stop |-> (stop_kind = "trailing"),
     exit_price |-> IF ~target THEN NoPrice
                    ELSE IF type = "long" THEN price + target_offset
                    ELSE price - target_offset]

\* account.open_position(...) at the close of the current bar
LogicOpen ==
    /\ pc = "logic"
    /\ orders < MaxOrders
    /\ \E type \in {"long", "short"}, f \in Fractions, kind \in OrderKinds,
          stop_offset \in StopOffsets, target_offset \in TargetOffsets :
          LET price == today.close
              units == units_for(cash, f, price)
              p == new_position(next_no + 1, type, units, price, kind[1], stop_offset,
                                kind[2], target_offset)
          IN  /\ units > 0
              /\ positions' = Append(positions, p)
              /\ opened_trades' = Append(opened_trades,
                                         [no |-> p.no, type |-> type, date |-> date])
              /\ cash' = cash - units * price
    /\ next_no' = next_no + 1
    /\ ops' = ops + 1
    /\ orders' = orders + 1
    /\ UNCHANGED <<pc, is_frame, columns, warned, loop_closed, data_len, row, index, today, equity_now, cursor,
                   closed_trades, equity, date, tracker, lookback, calls, exits,
                   error, result>>

\* account.close_position(p, fraction, price) at the close of the current bar
LogicClose ==
    /\ pc = "logic"
    /\ orders < MaxOrders
    /\ \E k \in 1..Len(positions), f \in Fractions :
          LET p == positions[k]
          IN  /\ p.size > 0
              /\ positions' = [positions EXCEPT ![k] = close(p, f)]
              /\ cash' = cash + proceeds(p, f, today.close)
              /\ closed_trades' = Append(closed_trades,
                                         [no |-> p.no, type |-> p.type, date |-> date,
                                          price |-> today.close])
    /\ ops' = ops + 1
    /\ orders' = orders + 1
    /\ UNCHANGED <<pc, is_frame, columns, warned, loop_closed, data_len, row, index, today, equity_now, cursor,
                   next_no, opened_trades, equity, date, tracker, lookback, calls,
                   exits, error, result>>

\* logic returns; the loop purges and goes to the next row (the label and the
\* slice of this bar are not read again)
LogicReturn_no_purge ==
    /\ pc = "logic"
    /\ index' = -1
    /\ lookback' = <<>>
    /\ pc' = "loop"
    /\ UNCHANGED <<is_frame, columns, warned, loop_closed, data_len, row, today, equity_now, cursor, cash,
                   positions, next_no, opened_trades, closed_trades, equity, date,
                   tracker, ops, orders, calls, exits, error, result>>

LogicReturn ==
    /\ pc = "logic"
    /\ positions' = purge_positions(positions)
    /\ index' = -1
    /\ lookback' = <<>>
    /\ pc' = "loop"
    /\ UNCHANGED <<is_frame, columns, warned, loop_closed, data_len, row, today, equity_now, cursor, cash, next_no,
                   opened_trades, closed_trades, equity, date, tracker, ops, orders,
                   calls, exits, error, result>>

\* logic raises; nothing in start() catches it (the label and the slice of
\* this bar are not read again)
LogicRaise_swallowed ==
    /\ pc = "logic"
    /\ error' = "StrategyError"
    /\ positions' = purge_positions(positions)
    /\ index' = -1
    /\ lookback' = <<>>
    /\ pc' = "loop"
    /\ UNCHANGED <<is_frame, columns, warned, loop_closed, data_len, row, today, equity_now, cursor, cash,
                   next_no, opened_trades, closed_trades, equity, date, tracker,
                   ops, orders, calls, exits, result>>

LogicRaise ==
    /\ pc = "logic"
    /\ error' = "StrategyError"
    /\ index' = -1
    /\ lookback' = <<>>
    /\ pc' = "aborted"
    /\ UNCHANGED <<is_frame, columns, warned, loop_closed, data_len, row, today,
                   equity_now, cursor, cash, positions, next_no, opened_trades,
                   closed_trades, equity, date, tracker, ops, orders, calls, exits,
                   result>>

(***************************************************************************)
(* After the loop: the frame of per-bar records with its returns           *)
(***************************************************************************)
NaN == [num |-> 0, den |-> 0]

\* (v - v.shift(1)) / v.shift(1) at row k, as numerator and denominator
pct_return(v, k) ==
    IF k = 1 THEN NaN ELSE [num |-> v[k] - v[k - 1], den |-> v[k - 1]]

frame(t) ==
    [k \in 1..Len(t) |->
        [date |-> t[k].date,
         benchmark_equity |-> t[k].benchmark_equity,
         strategy_equity |-> t[k].strategy_equity,
         benchmark_return |->
             pct_return([j \in 1..Len(t) |-> t[j].benchmark_equity], k),
         strategy_return |->
             pct_return([j \in 1..Len(t) |-> t[j].strategy_equity], k)]]

Finish_before_the_end ==
    /\ pc = "loop"
    /\ row <= data_len
    /\ IF tracker = <<>>
       THEN /\ error' = "AttributeError"
            /\ pc' = "aborted"
            /\ UNCHANGED result
       ELSE /\ result' = frame(tracker)
            /\ pc' = "done"
            /\ UNCHANGED error
    /\ UNCHANGED <<is_frame, columns, warned, loop_closed, data_len, row, index, today,
                   equity_now, cursor, cash, positions, next_no, opened_trades,
                   closed_trades, equity, date, tracker, lookback, ops, orders, calls,
                   exits>>

Finish ==
    /\ pc = "loop"
    /\ row = data_len
    /\ IF tracker = <<>>
       THEN /\ error' = "AttributeError"
            /\ pc' = "aborted"
            /\ UNCHANGED result
       ELSE /\ result' = frame(tracker)
            /\ pc' = "done"
            /\ UNCHANGED error
    /\ UNCHANGED <<is_frame, columns, warned, loop_closed, data_len, row, index, today,
                   equity_now, cursor, cash, positions, next_no, opened_trades,
                   closed_trades, equity, date, tracker, lookback, ops, orders, calls,
                   exits>>

Next ==
    \/ BarStart
    \/ ExitCheck
    \/ EndExits
    \/ LogicOpen
    \/ LogicClose
    \/ LogicReturn
    \/ LogicRaise
    \/ Finish

Spec == Init /\ [][Next]_vars

\* the same run, the steps of the loop and the return of the callback being
\* taken whenever they can be: the interpreter goes on with the next statement
\* and the callback returns on every bar it does not raise on
SpecLive ==
    /\ Init
    /\ [][Next]_vars
    /\ WF_vars(BarStart)
    /\ WF_vars(ExitCheck)
    /\ WF_vars(EndExits)
    /\ WF_vars(LogicReturn)
    /\ WF_vars(Finish)

\* start() may be called again on the object once a run has ended
NextRerun ==
    \/ Next
    \/ Start
    \/ Enter

SpecRerun == Init /\ [][NextRerun]_vars

\* the life of a backtest object from backtest(data) on; before start() has
\* been called there is no account and no tracker
InitObject ==
    /\ pc = "new"
    /\ is_frame \in BOOLEAN
    /\ columns \in IF is_frame THEN SUBSET Fields ELSE {{}}
    /\ warned = FALSE
    /\ loop_closed = {}
    /\ data_len \in 0..MaxBars
    /\ row = 0
    /\ index = -1
    /\ today = NoBar
    /\ equity_now = 0
    /\ cursor = 0
    /\ cash = 0
    /\ positions = <<>>
    /\ next_no = 0
    /\ opened_trades = <<>>
    /\ closed_trades = <<>>
    /\ equity = <<>>
    /\ date = 0
    /\ tracker = <<>>
    /\ lookback = <<>>
    /\ ops = 0
    /\ orders = 0
    /\ calls = [k \in 1..data_len |-> 0]
    /\ exits = <<>>
    /\ error = "none"
    /\ result = <<>>

NextObject ==
    \/ Construct
    \/ Start
    \/ Enter
    \/ Next

SpecObject == InitObject /\ [][NextObject]_vars

(***************************************************************************)
(* Properties                                                              *)
(***************************************************************************)
\* the bar would fire the stop / the target of p, read off the bar's extremes
StopFires(p, t) ==
    /\ p.stop_price # NoPrice
    /\ \/ p.type = "long" /\ t.low <= p.stop_price
       \/ p.type = "short" /\ t.high >= p.stop_price

TargetFires(p, t) ==
    /\ p.take_profit_price # NoPrice
    /\ \/ p.type = "long" /\ t.high >= p.take_profit_price
       \/ p.type = "short" /\ t.low <= p.take_profit_price

Prefix(s, t) == Len(s) <= Len(t) /\ \A k \in 1..Len(s) : s[k] = t[k]

\* C1: on a bar that would fire both the stop and the target of a position, the
\* exit phase performs the stop-loss close of that position (a full close at the
\* bar's price, not at exit_price) and no take-profit close; every position
\* the iterator has passed has its record.
C1_StopBeforeTarget ==
    /\ pc = "exits" => Len(exits) = cursor - 1
    /\ \A k \in 1..Len(exits) :
          StopFires(exits[k].before, today) /\ TargetFires(exits[k].before, today)
          => /\ exits[k].kind = "stop"
             /\ exits[k].price # exits[k].before.exit_price
             /\ exits[k].after.size = 0

C1_Witness ==
    \E k \in 1..Len(exits) :
        /\ StopFires(exits[k].before, today)
        /\ TargetFires(exits[k].before, today)
        /\ exits[k].kind = "stop"

\* C2: account.equity only ever grows by appends, and its length is the number
\* of bars processed: k when the callback runs for the k-th bar, N after a
\* complete run over N bars.
C2_EquityLength ==
    /\ [](Len(equity) = IF pc = "exits" \/ error = "InvalidOrder" THEN row - 1 ELSE row)
    /\ [](pc = "done" => Len(equity) = data_len)
    /\ [][Prefix(equity, equity')]_vars

C2_Witness ==
    /\ pc = "done"
    /\ data_len = MaxBars
    /\ Len(equity) = data_len
    /\ Len(opened_trades) > 0
    /\ Len(closed_trades) > 0

\* C3: a stop of a long that fires on a bar whose low is below the stop price
\* closes the position at the stop price: with 10000 of capital all put in a
\* long at 100 with its stop at 90, a bar with low 85 and high 95 closes it at
\* 90 and leaves 9000 of cash.
C3_StopClosesAtStopPrice ==
    \A k \in 1..Len(exits) :
        LET e == exits[k]
        IN  /\ initial_capital = 10000 /\ next_no = 1 /\ Len(exits) = 1
            /\ e.before.type = "long"
            /\ e.before.entry_price = 100 /\ e.before.stop_price = 90
            /\ e.before.size = initial_capital \div 100
            /\ today.low = 85 /\ today.high = 95
            => /\ e.kind = "stop"
               /\ e.price = e.before.stop_price
               /\ cash = 9000

\* C4: when the target of a position fires on a bar and its stop does not, the
\* exit phase closes the whole position at the position's exit_price, whatever
\* the extreme of the bar that fired it, for longs and for shorts.
C4_TargetClosesAtExitPrice ==
    \A k \in 1..Len(exits) :
        TargetFires(exits[k].before, today) /\ ~StopFires(exits[k].before, today)
        => /\ exits[k].kind = "tp"
           /\ exits[k].price = exits[k].before.exit_price
           /\ exits[k].after.size = 0

C4_Witness ==
    \E k \in 1..Len(exits) :
        /\ exits[k].before.type = "short"
        /\ exits[k].kind = "tp"
        /\ today.low < exits[k].before.exit_price
        /\ exits[k].price = exits[k].before.exit_price

\* C5: while the callback has opened no position, the strategy_equity of every
\* bar is initial_capital, and in the returned frame every strategy_return
\* after the first (undefined) one is zero.
C5_FlatEquityWithoutPositions ==
    next_no = 0 =>
        /\ \A k \in 1..Len(tracker) : tracker[k].strategy_equity = initial_capital
        /\ \A k \in 1..Len(equity) : equity[k] = initial_capital
        /\ pc = "done" =>
              /\ Len(result) = data_len
              /\ \A k \in 1..Len(result) :
                    /\ result[k].strategy_equity = initial_capital
                    /\ IF k = 1 THEN result[k].strategy_return = NaN
                       ELSE /\ result[k].strategy_return.num = 0
                            /\ result[k].strategy_return.den # 0

C5_Witness ==
    /\ pc = "done"
    /\ next_no = 0
    /\ Len(result) >= 2
    /\ result[1].benchmark_equity # result[2].benchmark_equity

\* C6: no position of size 0 is in account.positions when the callback is
\* invoked, when total_value is computed at the top of a bar, or when the run
\* has ended.
C6_NoEmptyPosition ==
    (pc = "loop" \/ pc = "done" \/ (pc = "logic" /\ ops = 0))
    => \A k \in 1..Len(positions) : positions[k].size # 0

\* the callback closed, on the last bar, the position it had opened on the bar
\* before, and the purge after the callback took it out
C6_Witness ==
    /\ pc = "loop"
    /\ row = data_len
    /\ next_no = 1
    /\ positions = <<>>
    /\ opened_trades[1].date < row
    /\ Len(closed_trades) = 1
    /\ closed_trades[1].date = row

\* C7: the callback is invoked exactly once for each bar, in order, and the
\* lookback it gets is the rows from the first up to and including the current
\* one, in order: no later row, no earlier row left out.
C7_LookbackIsPrefix ==
    /\ pc = "logic" => lookback = [k \in 1..row |-> k]
    /\ pc \in {"logic", "loop", "done"} =>
          \A k \in 1..data_len : calls[k] = IF k <= row THEN 1 ELSE 0
    /\ pc = "done" => row = data_len

\* C8: no step of the loop lowers the stop_price of a trailing-stop long or
\* raises that of a trailing-stop short, and no step changes the stop_price of
\* a position without trailing_stop.
C8_StopOnlyTightens ==
    [][\A i \in 1..Len(positions), j \in 1..Len(positions') :
          positions[i].no = positions'[j].no =>
              IF ~positions[i].trailing_stop
              THEN positions'[j].stop_price = positions[i].stop_price
              ELSE IF positions[i].type = "long"
              THEN positions'[j].stop_price >= positions[i].stop_price
              ELSE positions'[j].stop_price <= positions[i].stop_price]_vars

\* the loop called stop_adjust with a price that would loosen the stop
C8_Witness ==
    \E k \in 1..Len(exits) :
        /\ exits[k].kind = "adjust"
        /\ exits[k].before.trailing_stop
        /\ \/ /\ exits[k].before.type = "long"
              /\ exits[k].price - exits[k].before.stop_offset < exits[k].before.stop_price
           \/ /\ exits[k].before.type = "short"
              /\ exits[k].price + exits[k].before.stop_offset > exits[k].before.stop_price
        /\ exits[k].after.stop_price = exits[k].before.stop_price

\* C9: an exception of the callback leaves start() as it is and ends the run:
\* after it no bar is read, no exit check, equity append or callback happens,
\* and the bar is not tried again.
C9_CallbackErrorAborts ==
    /\ [](error = "StrategyError" =>
             /\ pc = "aborted"
             /\ Len(equity) = row
             /\ calls[row] = 1
             /\ \A k \in (row + 1)..data_len : calls[k] = 0)
    /\ [][error = "none"]_vars

C9_Witness ==
    /\ error = "StrategyError"
    /\ pc = "aborted"
    /\ row < data_len
    /\ positions # <<>>

\* C10: the size of a position never grows: across every step of a run a
\* position that stays in account.positions has at most the size it had.
C10_SizeNeverGrows ==
    [][\A i \in 1..Len(positions), j \in 1..Len(positions') :
          positions[i].no = positions'[j].no =>
              positions'[j].size <= positions[i].size]_vars

\* a position the callback closed in part and the exit phase then closed
C10_Witness ==
    \E k \in 1..Len(exits) :
        /\ IsClose(exits[k])
        /\ exits[k].before.size < exits[k].before.original_size
        /\ exits[k].before.size > 0
        /\ exits[k].after.size = 0

\* C11: backtest(data) on a frame that lacks one of the fields a bar must have
\* (date, open, high, low, close, volume) does not fail and emits its warning:
\* once it has returned, the object exists and the warning has been emitted.
C11_MissingFieldsWarn ==
    is_frame /\ Fields \ columns # {} /\ pc # "new" =>
        /\ pc # "rejected"
        /\ error # "ValueError"
        /\ warned

\* the bar moved in favour of p: it closed above its open for a long, below it
\* for a short
InFavour(p, t) ==
    IF p.type = "long" THEN t.close > t.open ELSE t.close < t.open

\* C12: in the exit phase of a bar a position gets at most one of the stop-loss
\* close, the take-profit close and the trailing-stop adjustment: one record
\* per position, a close leaves the stop as it was and an adjustment leaves
\* the size as it was; stop_adjust is called only when neither exit fired, the
\* position has trailing_stop and the bar moved in its favour, and it is
\* called with the close of the bar.
C12_OneActionPerPosition ==
    /\ \A j, k \in 1..Len(exits) :
          exits[j].before.no = exits[k].before.no => j = k
    /\ \A k \in 1..Len(exits) :
          LET e == exits[k]
          IN  /\ e.kind \in {"stop", "tp", "adjust", "none"}
              /\ IsClose(e) => e.after = [e.before EXCEPT !.size = 0]
              /\ e.kind = "none" => e.after = e.before
              /\ e.kind = "adjust" =>
                    /\ ~StopFires(e.before, today)
                    /\ ~TargetFires(e.before, today)
                    /\ e.before.trailing_stop
                    /\ InFavour(e.before, today)
                    /\ e.price = today.close
                    /\ e.after.size = e.before.size
                    /\ e.after \in {e.before,
                                    [e.before EXCEPT !.stop_price =
                                        recomputed_stop(e.before, today.close)]}

\* a trailing stop of a long moved up by the close of the bar
C12_Witness ==
    \E k \in 1..Len(exits) :
        /\ exits[k].kind = "adjust"
        /\ exits[k].before.type = "long"
        /\ exits[k].after.stop_price = today.close - exits[k].before.stop_offset
        /\ exits[k].after.stop_price > exits[k].before.stop_price

\* C13: the stop of a position is tested against the adverse extreme of the
\* bar, the low for a long and the high for a short, and when it fires the
\* whole position is closed at that extreme; the target of a short is tested
\* against the low of the bar.
C13_StopClosesAtAdverseExtreme ==
    \A k \in 1..Len(exits) :
        LET e == exits[k]
            p == exits[k].before
        IN  /\ e.kind = "stop" <=> StopFires(p, today)
            /\ e.kind = "stop" =>
                  /\ e.price = IF p.type = "long" THEN today.low ELSE today.high
                  /\ e.after.size = 0
            /\ p.type = "short" /\ ~StopFires(p, today) =>
                  (e.kind = "tp" <=> /\ p.take_profit_price # NoPrice
                                     /\ today.low <= p.take_profit_price)

\* a short stopped out at a high above its stop price
C13_Witness ==
    \E k \in 1..Len(exits) :
        /\ exits[k].before.type = "short"
        /\ exits[k].kind = "stop"
        /\ exits[k].price = today.high
        /\ today.high > exits[k].before.stop_price
        /\ exits[k].after.size = 0

\* C14: the equity recorded for a bar is the value of the account after the
\* exit checks of that bar, their closes and the purge: when the callback is
\* invoked, the last entry of account.equity and the strategy_equity of the
\* bar's record are total_value at the bar's close of the account as it then is.
C14_EquityReflectsExits ==
    pc = "logic" /\ ops = 0 =>
        /\ equity[row] = total_value(cash, positions, today.close)
        /\ tracker[row].strategy_equity = total_value(cash, positions, today.close)

\* C15: the strategy_equity of a bar, in account.equity and in the bar's
\* record, is total_value at the bar's close of the account as the bar before
\* left it; nothing done during the bar changes it, and the benchmark_equity
\* of the record is the bar's close.
C15_EquityIsStartOfBarValue ==
    /\ [](pc = "logic" =>
             /\ equity[row] = equity_now
             /\ tracker[row].strategy_equity = equity_now
             /\ tracker[row].benchmark_equity = today.close)
    /\ [][pc = "loop" /\ pc' = "exits" =>
             equity_now' = total_value(cash, positions, today'.close)]_vars
    /\ [][pc # "loop" /\ pc' # "loop" => equity_now' = equity_now]_vars
    /\ [][Prefix(equity, equity') /\ Prefix(tracker, tracker')]_vars

\* a bar whose exit phase closed a position at a price that is not the close:
\* the equity recorded for it is not the value of the account it left
C15_Witness ==
    /\ pc = "logic"
    /\ ops = 0
    /\ \E k \in 1..Len(exits) : IsClose(exits[k]) /\ exits[k].price # today.close
    /\ equity[row] = equity_now
    /\ equity[row] # total_value(cash, positions, today.close)

\* C16: the exit checks of a bar run before its callback: a position is never
\* checked on the bar it was opened on, every position left by an earlier bar
\* is checked on this one before the callback is invoked, no exit check runs
\* once the callback has been invoked, and a position the exit checks closed
\* is not in account.positions while the callback runs.
C16_ExitsBeforeCallback ==
    /\ [](\A k \in 1..Len(exits) : exits[k].before.entry_date < row)
    /\ [](pc = "logic" =>
             \A k \in 1..Len(exits), j \in 1..Len(positions) :
                 IsClose(exits[k]) => positions[j].no # exits[k].before.no)
    /\ [](pc = "logic" /\ ops = 0 =>
             \A j \in 1..Len(positions) :
                 /\ positions[j].entry_date < row
                 /\ \E k \in 1..Len(exits) : exits[k].before.no = positions[j].no)
    /\ [][pc = "logic" => exits' = exits]_vars

\* the callback runs on the bar after the one a position was opened on, the
\* exit checks of this bar having closed that position
C16_Witness ==
    /\ pc = "logic"
    /\ \E k \in 1..Len(exits) :
          /\ IsClose(exits[k])
          /\ exits[k].before.entry_date = row - 1
          /\ \A j \in 1..Len(positions) : positions[j].no # exits[k].before.no

\* C17: in the exit phase every position that is in account.positions at the
\* start of the phase is evaluated exactly once, in order, none skipped and
\* none twice, however many are closed on the way: a step of the phase changes
\* no position but the one under the iterator and takes none out of the list,
\* and the phase ends with one record for each position of the list.
C17_EachPositionOnce ==
    /\ [](pc = "exits" =>
             /\ Len(exits) = cursor - 1
             /\ \A k \in 1..Len(exits) : exits[k].before.no = positions[k].no)
    /\ [](\A j, k \in 1..Len(positions) :
             positions[j].no = positions[k].no => j = k)
    /\ [][pc = "exits" /\ pc' = "exits" =>
             /\ Len(positions') = Len(positions)
             /\ \A k \in 1..Len(positions) :
                   /\ positions'[k].no = positions[k].no
                   /\ k # cursor => positions'[k] = positions[k]]_vars
    /\ [][pc = "exits" /\ pc' = "logic" =>
             /\ Len(exits) = Len(positions)
             /\ \A k \in 1..Len(exits) : exits[k].before.no = positions[k].no]_vars

\* the first of two positions was closed and the second was still evaluated
C17_Witness ==
    /\ pc = "logic"
    /\ ops = 0
    /\ Len(exits) = 2
    /\ IsClose(exits[1])
    /\ exits[2].before.no # exits[1].before.no
    /\ exits[2].before.size > 0

\* C18: a run over a finite series whose callback returns on every bar comes
\* to its end, and it ends with the frame only when every bar has been
\* processed exactly once, in the order of the series: the loop goes from a row
\* to the next one only, the callback has been invoked once for each row the
\* loop has passed and for no other, the records are those of rows 1..N in
\* order, and a run that ends before the last row ends with an error.
C18_RunTerminates ==
    /\ <>(pc = "done" \/ error # "none")
    /\ [](pc = "done" =>
             /\ row = data_len
             /\ error = "none"
             /\ Len(tracker) = data_len
             /\ \A k \in 1..data_len : tracker[k].date = k /\ calls[k] = 1)
    /\ [](pc = "aborted" => error # "none")
    /\ [](\A k \in 1..data_len :
             calls[k] = IF k < row \/ (k = row /\ pc # "exits") THEN 1 ELSE 0)
    /\ [][row' = row \/ (pc = "loop" /\ row < data_len /\ row' = row + 1)]_vars

\* a complete run over the longest series in which the exit checks and the
\* callback both acted
C18_Witness ==
    /\ pc = "done"
    /\ row = MaxBars
    /\ Len(result) = MaxBars
    /\ loop_closed # {}
    /\ orders = MaxOrders

\* C19: every call of start() makes a new account (cash = initial_capital, no
\* positions, empty equity and trade logs) and a new tracker: when a later
\* call has run them nothing of the earlier run is left, the data is the same,
\* and the loop is entered in a state a first run starts from, so that the
\* same callback on the same data yields the same equity sequence.
C19_FreshRunState ==
    /\ [](pc = "start" =>
             /\ cash = initial_capital
             /\ positions = <<>>
             /\ equity = <<>>
             /\ opened_trades = <<>>
             /\ closed_trades = <<>>
             /\ tracker = <<>>
             /\ result = <<>>
             /\ error = "none")
    /\ [][pc' = "start" => data_len' = data_len /\ columns' = columns]_vars
    /\ [][pc = "start" => Init' /\ data_len' = data_len]_vars

\* start() has been called again on an object that holds the longest series,
\* an earlier run on it having ended
C19_Witness ==
    /\ pc = "start"
    /\ data_len = MaxBars
    /\ tracker = <<>>
    /\ cash = initial_capital

\* C20: the exit checks never call close_position on a position that is not
\* open: every position they close has a size above 0 and is in
\* account.positions, none is closed by them a second time, each of their
\* closes credits cash once with the value of the units the position held,
\* a position they closed is gone from account.positions when the callback
\* runs, and no run ends with InvalidOrder.
C20_LoopClosesOpenPositionsOnce ==
    /\ [](error # "InvalidOrder")
    /\ [](\A k \in 1..Len(exits) : IsClose(exits[k]) => exits[k].before.size > 0)
    /\ [](pc \in {"logic", "loop", "done"} =>
             \A k \in 1..Len(positions) : positions[k].no \notin loop_closed)
    /\ [][pc = "exits" /\ Len(closed_trades') > Len(closed_trades) =>
             \E k \in 1..Len(positions) :
                 LET p == positions[k]
                 IN  /\ p.size > 0
                     /\ p.no \notin loop_closed
                     /\ loop_closed' = loop_closed \cup {p.no}
                     /\ Len(closed_trades') = Len(closed_trades) + 1
                     /\ cash' = cash + p.size * unit_value(p, exits'[Len(exits')].price)
                     /\ positions'[k].size = 0]_vars

\* the exit checks closed two positions in the run
C20_Witness ==
    /\ pc = "done"
    /\ error = "none"
    /\ Cardinality(loop_closed) = 2
    /\ Len(closed_trades) = 2

====
